---- MODULE Spec2Model ----
(***************************************************************************)
(* Model of the HTML-to-PPTX conversion pipeline.                          *)
(*                                                                         *)
(*   - SlideCreator.createSlides / createSlideFromSection /                *)
(*     addElementToSlide driving the PptxGenerator backend                 *)
(*     (src/src/services/conversion/SlideCreator.ts, src/unnamed/part_011) *)
(*   - HTMLParser.extractSections                                          *)
(*     (src/src/services/parser/HTMLParser.ts)                             *)
(*                                                                         *)
(* JavaScript is single threaded: a synchronous stretch of code is one     *)
(* action; an `await` on real asynchronous work (initialize, processImage) *)
(* ends an action and its continuation is another one.                     *)
(***************************************************************************)
EXTENDS Integers, Sequences, FiniteSets, TLC

VARIABLES
    htmlContent,    \* argument of createSlides: [sections, resources]
    config,         \* argument of createSlides: ConversionConfig
    pc,             \* position of createSlides
    sections,       \* the sections createSlides iterates over
    secIdx,         \* index of the section being rendered
    elIdx,          \* index of the element being rendered
    pendingImage,   \* the processImage promise createSlides awaits
    calls,          \* every call made on the PptxGenerator backend, in order
    handlerLog,     \* every handler (processX) invocation, in order
    result,         \* settlement of the createSlides promise
    error,          \* class of the error at each catch level
    faults,         \* number of injected failures so far
    doc,            \* argument of extractSections: the parsed body
    strategy,       \* argument of extractSections: [kind, customSelector]
    parsed,         \* return value of extractSections
    ppc,            \* position of extractSections
    input,          \* argument of a directly called method
    output,         \* what the method returned, one entry per call
    fpc             \* position of the direct call

vars == <<htmlContent, config, pc, sections, secIdx, elIdx, pendingImage,
          calls, handlerLog, result, error, faults, doc, strategy, parsed, ppc,
          input, output, fpc>>

slideVars == <<htmlContent, config, pc, sections, secIdx, elIdx, pendingImage,
               calls, handlerLog, result, error, faults>>

parseVars == <<doc, strategy, parsed, ppc>>

fnVars == <<input, output, fpc>>

-----------------------------------------------------------------------------
(* Bounds *)

MaxSections == 2
MaxElems == 2
MaxDocNodes == 4
MaxRes == 2
MaxFaults == 2
MaxBody == 3
MaxKids == 1
MaxNodes == 3
MaxUrlParts == 3
MaxCols == 2
MaxRows == 2
MaxAttrLen == 2
MaxFragNodes == 4
MaxDim == 4
MaxNested == 2

-----------------------------------------------------------------------------
(* Data model: src/src/models/index.ts *)

ElementTypes == {"text", "image", "table", "list", "link"}

SlideLayout == {"standard", "wide", "custom"}

\* a value outside the SlideLayout enum, as an untyped caller can pass it
UnknownLayout == "unknown"

\* createSlides hands config.theme to createPresentation unread
PresentationTheme == {"professional"}

\* dimensions as the code passes them around: a percentage string, a number
\* (kept in hundredths of an inch, i.e. pixels / 100 * 100) or undefined
Pct(n) == [unit |-> "%", v |-> n]
Num(n) == [unit |-> "num", v |-> n]
Undefined == [unit |-> "undefined", v |-> 0]
NaN == [unit |-> "NaN", v |-> 0]

\* `key in object` for an options object whose absent keys read as undefined
Present(d) == d.unit # "undefined"

\* JavaScript truthiness, as used by `options?.w || ...`
Truthy(d) == Present(d) /\ d.unit # "NaN" /\ ~(d.unit = "num" /\ d.v = 0)

\* strings are sequences of characters
RECURSIVE Concat(_)
Concat(seqs) == IF seqs = <<>> THEN <<>> ELSE Head(seqs) \o Concat(Tail(seqs))

\* resource i of a kind; an ImageResource carries its extracted width/height,
\* a LinkResource its text and its href as extracted ("x", like "example.com")
Resource(type, i) ==
    IF type = "image"
    THEN [id |-> i, width |-> 300 + 100 * i, height |-> 200 + 100 * i]
    ELSE IF type = "link"
    THEN [id |-> i, width |-> 0, height |-> 0, text |-> <<"t">>, href |-> <<"x">>]
    ELSE [id |-> i, width |-> 0, height |-> 0]

\* an options object restricted to its geometry keys
Rect(x, y, w, h) == [x |-> x, y |-> y, w |-> w, h |-> h]

NoStyle == Rect(Undefined, Undefined, Undefined, Undefined)

\* object spread { ...a, ...b }: a key of b, when present, wins
Spread(a, b) ==
    [k \in {"x", "y", "w", "h"} |-> IF Present(b[k]) THEN b[k] ELSE a[k]]

Element(type, i) == [type |-> type, content |-> Resource(type, i), style |-> NoStyle]

\* titles: a text (a sequence of characters) or the generated "Section n"
SectionTitle(i) == [text |-> <<"Section">>, n |-> i]
Untitled == [text |-> <<"Untitled">>, n |-> 0]
TextTitle(text) == [text |-> text, n |-> 0]

Section(title, elements) == [title |-> title, elements |-> elements]

-----------------------------------------------------------------------------
(* Inputs of createSlides *)

\* element lists of at most n elements
ElementSeqs(n) == UNION {[1..k -> {Element(t, 1) : t \in ElementTypes}] : k \in 0..n}

Min(a, b) == IF a < b THEN a ELSE b

\* lists of exactly n sections holding at most `budget` elements in all
RECURSIVE SectionListsOf(_, _)
SectionListsOf(n, budget) ==
    IF n = 0 THEN {<<>>}
    ELSE UNION {{<<es>> \o rest : rest \in SectionListsOf(n - 1, budget - Len(es))} :
                    es \in ElementSeqs(Min(MaxElems, budget))}

\* a document holds at most MaxDocNodes sections and elements in all
SectionLists == UNION {SectionListsOf(n, MaxDocNodes - n) : n \in 1..MaxSections}

TitledSections(ss) == [i \in 1..Len(ss) |-> Section(SectionTitle(i), ss[i])]

ResourceList(type, n) == [i \in 1..n |-> Resource(type, i)]

NoResources ==
    [texts |-> <<>>, images |-> <<>>, tables |-> <<>>, lists |-> <<>>, links |-> <<>>]

ResourceCounts ==
    {n \in [{"text", "image", "table", "list", "link"} -> 0..MaxRes] :
        n["text"] + n["image"] + n["table"] + n["list"] + n["link"] <= MaxDocNodes - 1}

Resources ==
    {[texts |-> ResourceList("text", n["text"]), images |-> ResourceList("image", n["image"]),
      tables |-> ResourceList("table", n["table"]), lists |-> ResourceList("list", n["list"]),
      links |-> ResourceList("link", n["link"])] : n \in ResourceCounts}

\* the document-wide resources are only read when there are no sections
HTMLContents ==
    {[sections |-> TitledSections(ss), resources |-> NoResources] : ss \in SectionLists}
    \cup {[sections |-> <<>>, resources |-> r] : r \in Resources}

Configs ==
    [slideLayout : SlideLayout \cup {UnknownLayout},
     includeImages : BOOLEAN,
     preserveLinks : BOOLEAN,
     theme : PresentationTheme]

-----------------------------------------------------------------------------
(* Layout engine: SlideCreator.getLayoutPositions *)

defaultPositions ==
    [title |-> Rect(Num(50), Num(50), Pct(90), Num(100)),
     text  |-> Rect(Num(50), Num(150), Pct(90), Undefined),
     image |-> Rect(Num(100), Num(200), Pct(80), Undefined),
     table |-> Rect(Num(50), Num(200), Pct(90), Undefined),
     list  |-> Rect(Num(50), Num(200), Pct(90), Undefined),
     link  |-> Rect(Num(50), Num(200), Pct(90), Undefined)]

customPositions ==
    [title |-> Rect(Num(50), Num(50), Pct(95), Num(100)),
     text  |-> Rect(Num(50), Num(150), Pct(95), Undefined),
     image |-> Rect(Num(50), Num(200), Pct(90), Undefined),
     table |-> Rect(Num(50), Num(200), Pct(95), Undefined),
     list  |-> Rect(Num(50), Num(200), Pct(95), Undefined),
     link  |-> Rect(Num(50), Num(200), Pct(95), Undefined)]

\* faulty variant: the default branch answers with the custom rectangles
getLayoutPositionsDefaultCustom(layout) ==
    CASE layout = "standard" -> defaultPositions
      [] layout = "wide" ->
            [defaultPositions EXCEPT !.image = Rect(Num(100), Num(200), Pct(85), Undefined)]
      [] OTHER -> customPositions

getLayoutPositions(layout) ==
    CASE layout = "standard" ->
            [defaultPositions EXCEPT !.image = Rect(Num(100), Num(200), Pct(80), Undefined)]
      [] layout = "wide" ->
            [defaultPositions EXCEPT !.image = Rect(Num(100), Num(200), Pct(85), Undefined)]
      [] layout = "custom" -> customPositions
      [] OTHER -> defaultPositions

-----------------------------------------------------------------------------
(* Handler styling: the geometry keys of the options the handlers return *)

applyTableStyling == Rect(Num(50), Num(200), Pct(90), Undefined)
applyListStyling == Rect(Num(50), Num(200), Pct(90), Num(200))
applyLinkStyling == Rect(Num(50), Num(200), Pct(90), Num(50))

-----------------------------------------------------------------------------
(* Presentation backend: PptxGenerator *)

NoRect == NoStyle
NoContent == [id |-> 0, width |-> 0, height |-> 0]

\* geometry PptxGenerator.addImageElement hands to slide.addImage:
\* { w: options?.w || image.width / 100, h: options?.h || ..., ...options }
addImageElementGeometry(image, options) ==
    Spread(Rect(IF Truthy(options.x) THEN options.x ELSE Num(100),
                IF Truthy(options.y) THEN options.y ELSE Num(200),
                IF Truthy(options.w) THEN options.w ELSE Num(image.width),
                IF Truthy(options.h) THEN options.h ELSE Num(image.height)),
           options)

\* a record of one call on the backend; ok = FALSE when the call threw
Call(op, s, e, content, form, options, ok) ==
    [op |-> op, sec |-> s, el |-> e, content |-> content, form |-> form,
     options |-> options,
     geometry |-> IF op = "addImageElement"
                  THEN addImageElementGeometry(content, options) ELSE NoRect,
     title |-> IF op = "addSlide" THEN sections[s].title ELSE Untitled,
     theme |-> IF op = "createPresentation" THEN config.theme ELSE "none",
     ok |-> ok]

\* outcomes of one backend call or one handler step: TRUE = returns,
\* FALSE = throws (only while the failure budget lasts)
Outcomes(used) == IF faults + used < MaxFaults THEN BOOLEAN ELSE {TRUE}

Cost(b) == IF b THEN 0 ELSE 1

BackendErrors == {"PptxGenerationError", "Error"}

NoError == [thrown |-> "none", element |-> "none", section |-> "none", slides |-> "none"]

-----------------------------------------------------------------------------
(* LinkHandler: src/src/services/conversion/LinkHandler.ts *)

LowerCase == <<"a", "b", "c", "d", "e", "f", "g", "h", "i", "j", "k", "l", "m",
               "n", "o", "p", "q", "r", "s", "t", "u", "v", "w", "x", "y", "z">>
UpperCase == <<"A", "B", "C", "D", "E", "F", "G", "H", "I", "J", "K", "L", "M",
               "N", "O", "P", "Q", "R", "S", "T", "U", "V", "W", "X", "Y", "Z">>

\* [a-z] under the i flag
IsLetter(c) == \E i \in 1..26 : LowerCase[i] = c \/ UpperCase[i] = c

ToLower(c) ==
    IF \E i \in 1..26 : UpperCase[i] = c
    THEN LowerCase[CHOOSE i \in 1..26 : UpperCase[i] = c]
    ELSE c

\* String.prototype.startsWith
StartsWith(str, prefix) ==
    Len(str) >= Len(prefix) /\ SubSeq(str, 1, Len(prefix)) = prefix

\* /^[a-z]+:/i
MatchesScheme(url) ==
    \E k \in 1..Len(url) :
        /\ \A i \in 1..k : IsLetter(url[i])
        /\ StartsWith(SubSeq(url, k + 1, Len(url)), <<":">>)

\* /^https?:/i
MatchesHttp(url) ==
    LET lower == [i \in 1..Len(url) |-> ToLower(url[i])]
    IN  \/ StartsWith(lower, <<"h", "t", "t", "p", ":">>)
        \/ StartsWith(lower, <<"h", "t", "t", "p", "s", ":">>)

\* /^[a-z]+:\/\//i
MatchesProtocol(url) ==
    \E k \in 1..Len(url) :
        /\ \A i \in 1..k : IsLetter(url[i])
        /\ StartsWith(SubSeq(url, k + 1, Len(url)), <<":", "/", "/">>)

HttpPrefix == <<"h", "t", "t", "p", ":", "/", "/">>
HttpsPrefix == <<"h", "t", "t", "p", "s", ":", "/", "/">>

\* faulty variant: a URL without protocol gets "http://" in front
normalizeUrlPrefixHttp(url) ==
    IF url = <<>> THEN <<"#">>
    ELSE IF StartsWith(url, <<"#">>) THEN url
    ELSE IF MatchesScheme(url) /\ ~MatchesHttp(url) THEN url
    ELSE IF ~MatchesProtocol(url)
    THEN IF ~StartsWith(url, <<"/">>) THEN HttpPrefix \o url ELSE url
    ELSE IF StartsWith(url, HttpPrefix)
    THEN HttpsPrefix \o SubSeq(url, Len(HttpPrefix) + 1, Len(url))
    ELSE url

\* LinkHandler.normalizeUrl
normalizeUrl(url) ==
    IF url = <<>> THEN <<"#">>
    ELSE IF StartsWith(url, <<"#">>) THEN url
    ELSE IF MatchesScheme(url) /\ ~MatchesHttp(url) THEN url
    ELSE IF ~MatchesProtocol(url)
    THEN IF ~StartsWith(url, <<"/">>) THEN HttpsPrefix \o url ELSE url
    ELSE IF StartsWith(url, HttpPrefix)
    THEN HttpsPrefix \o SubSeq(url, Len(HttpPrefix) + 1, Len(url))
    ELSE url

\* textContent of the markup: the characters outside the tags
RECURSIVE StripTags(_, _)
StripTags(html, inTag) ==
    IF html = <<>> THEN <<>>
    ELSE IF Head(html) = "<" THEN StripTags(Tail(html), TRUE)
    ELSE IF Head(html) = ">" /\ inTag THEN StripTags(Tail(html), FALSE)
    ELSE IF inTag THEN StripTags(Tail(html), TRUE)
    ELSE <<Head(html)>> \o StripTags(Tail(html), FALSE)

\* LinkHandler.extractLinkText: textContent || innerText || html
extractLinkText(html) ==
    IF StripTags(html, FALSE) # <<>> THEN StripTags(html, FALSE) ELSE html

Includes(str, c) == \E i \in 1..Len(str) : str[i] = c

\* LinkHandler.processLink
processLink(link) ==
    [link EXCEPT !.href = normalizeUrl(@),
                 !.text = IF Includes(@, "<") /\ Includes(@, ">")
                          THEN extractLinkText(@) ELSE @]

-----------------------------------------------------------------------------
(* SlideCreator: control flow helpers *)

\* catch blocks: each wraps whatever reaches it in a SlideCreationError
CatchAddElementToSlide(cls) == "SlideCreationError"
CatchCreateSlideFromSection(cls) == "SlideCreationError"

\* faulty variant: the outermost catch rethrows what it caught
CatchCreateSlidesRethrow(cls) == cls
CatchCreateSlides(cls) == "SlideCreationError"

\* an error thrown inside addElementToSlide's outer try
ThrownInElement(cls) ==
    LET e1 == CatchAddElementToSlide(cls)
        e2 == CatchCreateSlideFromSection(e1)
    IN  [thrown |-> cls, element |-> e1, section |-> e2, slides |-> CatchCreateSlides(e2)]

\* an error thrown inside createSlideFromSection's try, outside addElementToSlide
ThrownInSection(cls) ==
    LET e2 == CatchCreateSlideFromSection(cls)
    IN  [thrown |-> cls, element |-> "none", section |-> e2, slides |-> CatchCreateSlides(e2)]

\* an error thrown inside createSlides' try, outside createSlideFromSection
ThrownInSlides(cls) ==
    [thrown |-> cls, element |-> "none", section |-> "none", slides |-> CatchCreateSlides(cls)]

Reject(err) ==
    /\ pc' = "done"
    /\ result' = "rejected"
    /\ error' = err
    /\ UNCHANGED <<secIdx, elIdx>>

\* the two for-loops: where control goes once element e of section s is done
Continue(s, e) ==
    IF e < Len(sections[s].elements)
    THEN [pc |-> "element", secIdx |-> s, elIdx |-> e + 1, result |-> "pending"]
    ELSE IF s < Len(sections)
         THEN [pc |-> "addSlide", secIdx |-> s + 1, elIdx |-> 0, result |-> "pending"]
         ELSE [pc |-> "done", secIdx |-> s, elIdx |-> e, result |-> "resolved"]

Goto(n) ==
    /\ pc' = n.pc
    /\ secIdx' = n.secIdx
    /\ elIdx' = n.elIdx
    /\ result' = n.result
    /\ UNCHANGED error

\* faulty variant: the link block moved in front of the text block
extractElementsFromResourcesLinksFirst(content) ==
    LET r == content.resources
        of(type, list) == [i \in 1..Len(list) |-> [type |-> type, content |-> list[i], style |-> NoStyle]]
    IN  of("link", r.links) \o of("text", r.texts) \o of("image", r.images)
          \o of("table", r.tables) \o of("list", r.lists)

extractElementsFromResources(content) ==
    LET r == content.resources
        of(type, list) == [i \in 1..Len(list) |-> [type |-> type, content |-> list[i], style |-> NoStyle]]
    IN  of("text", r.texts) \o of("image", r.images) \o of("table", r.tables)
          \o of("list", r.lists) \o of("link", r.links)

current == sections[secIdx].elements[elIdx]

positions == getLayoutPositions(config.slideLayout)

\* faulty variant: the includeImages guard dropped
ShouldAddImageAlways == TRUE
ShouldAddImage == config.includeImages

ShouldAddLink == config.preserveLinks

Log(handler, event) == [handler |-> handler, sec |-> secIdx, el |-> elIdx, event |-> event]

NoPending == [sec |-> 0, el |-> 0, options |-> NoRect]

\* dimensions processImage may resolve with: the original ones or resized ones
ProcessScales == {1, 2}

-----------------------------------------------------------------------------
(* SlideCreator.createSlides *)

Initialize ==
    /\ pc = "createSlides"
    /\ \E ok \in Outcomes(0), cls \in BackendErrors :
          /\ calls' = Append(calls, Call("initialize", 0, 0, NoContent, "none", NoRect, ok))
          /\ faults' = faults + Cost(ok)
          /\ IF ok
             THEN pc' = "createPresentation" /\ UNCHANGED <<secIdx, elIdx, result, error>>
             ELSE Reject(ThrownInSlides(cls))
    /\ UNCHANGED <<htmlContent, config, sections, pendingImage, handlerLog>>
    /\ UNCHANGED <<parseVars, fnVars>>

CreatePresentation ==
    /\ pc = "createPresentation"
    /\ \E ok \in Outcomes(0), cls \in BackendErrors :
          /\ calls' = Append(calls, Call("createPresentation", 0, 0, NoContent, "none", NoRect, ok))
          /\ faults' = faults + Cost(ok)
          /\ IF ok
             THEN /\ sections' =
                        IF Len(htmlContent.sections) = 0
                        THEN <<Section(Untitled, extractElementsFromResources(htmlContent))>>
                        ELSE htmlContent.sections
                  /\ pc' = "addSlide"
                  /\ secIdx' = 1
                  /\ elIdx' = 0
                  /\ UNCHANGED <<result, error>>
             ELSE Reject(ThrownInSlides(cls)) /\ UNCHANGED sections
    /\ UNCHANGED <<htmlContent, config, pendingImage, handlerLog>>
    /\ UNCHANGED <<parseVars, fnVars>>

(* SlideCreator.createSlideFromSection, up to the element loop *)
AddSlide ==
    /\ pc = "addSlide"
    /\ \E ok \in Outcomes(0), cls \in BackendErrors :
          /\ calls' = Append(calls, Call("addSlide", secIdx, 0, NoContent, "none", NoRect, ok))
          /\ faults' = faults + Cost(ok)
          /\ IF ok
             THEN Goto(Continue(secIdx, 0))
             ELSE Reject(ThrownInSection(cls))
    /\ UNCHANGED <<htmlContent, config, sections, pendingImage, handlerLog>>
    /\ UNCHANGED <<parseVars, fnVars>>

-----------------------------------------------------------------------------
(* SlideCreator.addElementToSlide *)

ElementAt(s, e) == sections[s].elements[e]

\* an inner catch block: warn, then add the element's original content with
\* the options as they are at that point; `made` are the calls of the try
\* block, `used` the failures it consumed
\* faulty variant: the catch block rethrows instead of adding the original
FallbackRethrow(op, s, e, options, made, used) ==
    /\ calls' = calls \o made
    /\ faults' = faults + used
    /\ Reject(ThrownInElement("Error"))

Fallback(op, s, e, options, made, used) ==
    \E ok \in Outcomes(used), cls \in BackendErrors :
        /\ calls' = calls \o made
                      \o <<Call(op, s, e, ElementAt(s, e).content, "original", options, ok)>>
        /\ faults' = faults + used + Cost(ok)
        /\ IF ok
           THEN Goto(Continue(s, e))
           ELSE Reject(ThrownInElement(cls))

\* what the handler hands back for the element's content
Processed(handler, content) ==
    IF handler = "processLink" THEN processLink(content) ELSE content

\* faulty variant: the original is added after the processed element as well
TryProcessThenAddBoth(op, handler, processedOptions, originalOptions) ==
    /\ handlerLog' = Append(handlerLog, Log(handler, "returned"))
    /\ calls' = calls \o
                  <<Call(op, secIdx, elIdx, Processed(handler, current.content),
                         "processed", processedOptions, TRUE),
                    Call(op, secIdx, elIdx, current.content, "original",
                         originalOptions, TRUE)>>
    /\ Goto(Continue(secIdx, elIdx))
    /\ UNCHANGED faults

\* try { process; style; add processed } catch { add original }
TryProcessThenAdd(op, handler, processedOptions, originalOptions) ==
    \/ /\ faults < MaxFaults                      \* a handler step throws
       /\ handlerLog' = Append(handlerLog, Log(handler, "threw"))
       /\ Fallback(op, secIdx, elIdx, originalOptions, <<>>, 1)
    \/ /\ handlerLog' = Append(handlerLog, Log(handler, "returned"))
       /\ \/ /\ calls' = Append(calls, Call(op, secIdx, elIdx,
                                            Processed(handler, current.content),
                                            "processed", processedOptions, TRUE))
             /\ Goto(Continue(secIdx, elIdx))
             /\ UNCHANGED faults
          \/ /\ faults < MaxFaults                \* the backend call throws
             /\ Fallback(op, secIdx, elIdx, originalOptions,
                         <<Call(op, secIdx, elIdx, Processed(handler, current.content),
                                "processed", processedOptions, FALSE)>>, 1)

AddText ==
    /\ pc = "element"
    /\ current.type = "text"
    /\ \E ok \in Outcomes(0), cls \in BackendErrors :
          /\ calls' = Append(calls, Call("addTextElement", secIdx, elIdx, current.content,
                                         "original", Spread(positions.text, current.style), ok))
          /\ faults' = faults + Cost(ok)
          /\ IF ok
             THEN Goto(Continue(secIdx, elIdx))
             ELSE Reject(ThrownInElement(cls))
    /\ UNCHANGED <<htmlContent, config, sections, pendingImage, handlerLog>>
    /\ UNCHANGED <<parseVars, fnVars>>

SkipImage ==
    /\ pc = "element"
    /\ current.type = "image"
    /\ ~ShouldAddImage
    /\ Goto(Continue(secIdx, elIdx))
    /\ UNCHANGED <<htmlContent, config, sections, pendingImage, calls, handlerLog, faults>>
    /\ UNCHANGED <<parseVars, fnVars>>

\* faulty variant: processImage is started but not awaited
StartImageNoAwait ==
    /\ pc = "element"
    /\ current.type = "image"
    /\ ShouldAddImage
    /\ pendingImage = NoPending
    /\ pendingImage' = [sec |-> secIdx, el |-> elIdx,
                        options |-> Spread(positions.image, current.style)]
    /\ handlerLog' = Append(handlerLog, Log("processImage", "called"))
    /\ Goto(Continue(secIdx, elIdx))
    /\ UNCHANGED <<htmlContent, config, sections, calls, faults>>
    /\ UNCHANGED <<parseVars, fnVars>>

\* faulty variant: the awaited promise is never settled
StartImageNeverSettles ==
    /\ pc = "element"
    /\ current.type = "image"
    /\ ShouldAddImage
    /\ pendingImage' = NoPending
    /\ handlerLog' = Append(handlerLog, Log("processImage", "called"))
    /\ pc' = "awaitImage"
    /\ UNCHANGED <<htmlContent, config, sections, secIdx, elIdx, calls, result, error, faults>>
    /\ UNCHANGED <<parseVars, fnVars>>

\* image branch up to `await this.imageHandler.processImage(...)`
StartImage ==
    /\ pc = "element"
    /\ current.type = "image"
    /\ ShouldAddImage
    /\ pendingImage' = [sec |-> secIdx, el |-> elIdx,
                        options |-> Spread(positions.image, current.style)]
    /\ handlerLog' = Append(handlerLog, Log("processImage", "called"))
    /\ pc' = "awaitImage"
    /\ UNCHANGED <<htmlContent, config, sections, secIdx, elIdx, calls, result, error, faults>>
    /\ UNCHANGED <<parseVars, fnVars>>

\* processImage resolved: set w/h from the processed image, add it
ImageResolved ==
    /\ pendingImage # NoPending
    /\ LET s == pendingImage.sec
           e == pendingImage.el
           image == ElementAt(s, e).content
       IN  \E scale \in ProcessScales :
             LET processedImage == [image EXCEPT !.width = image.width \div scale,
                                                 !.height = image.height \div scale]
                 imageOptions == [pendingImage.options EXCEPT
                                     !.w = Num(processedImage.width),
                                     !.h = Num(processedImage.height)]
             IN  /\ handlerLog' = Append(handlerLog,
                                         [handler |-> "processImage", sec |-> s, el |-> e,
                                          event |-> "resolved"])
                 /\ \/ /\ calls' = Append(calls, Call("addImageElement", s, e, processedImage,
                                                      "processed", imageOptions, TRUE))
                       /\ Goto(Continue(s, e))
                       /\ UNCHANGED faults
                    \/ /\ faults < MaxFaults
                       /\ Fallback("addImageElement", s, e, imageOptions,
                                   <<Call("addImageElement", s, e, processedImage,
                                          "processed", imageOptions, FALSE)>>, 1)
    /\ pendingImage' = NoPending
    /\ UNCHANGED <<htmlContent, config, sections>>
    /\ UNCHANGED <<parseVars, fnVars>>

\* processImage rejected: add the original image with the untouched options
ImageRejected ==
    /\ pendingImage # NoPending
    /\ faults < MaxFaults
    /\ handlerLog' = Append(handlerLog,
                            [handler |-> "processImage", sec |-> pendingImage.sec,
                             el |-> pendingImage.el, event |-> "rejected"])
    /\ Fallback("addImageElement", pendingImage.sec, pendingImage.el,
                pendingImage.options, <<>>, 1)
    /\ pendingImage' = NoPending
    /\ UNCHANGED <<htmlContent, config, sections>>
    /\ UNCHANGED <<parseVars, fnVars>>

AddTable ==
    /\ pc = "element"
    /\ current.type = "table"
    /\ TryProcessThenAdd("addTableElement", "processTable",
                         Spread(Spread(positions.table, applyTableStyling), current.style),
                         Spread(positions.table, current.style))
    /\ UNCHANGED <<htmlContent, config, sections, pendingImage>>
    /\ UNCHANGED <<parseVars, fnVars>>

AddList ==
    /\ pc = "element"
    /\ current.type = "list"
    /\ TryProcessThenAdd("addListElement", "processList",
                         Spread(Spread(positions.list, applyListStyling), current.style),
                         Spread(positions.list, current.style))
    /\ UNCHANGED <<htmlContent, config, sections, pendingImage>>
    /\ UNCHANGED <<parseVars, fnVars>>

SkipLink ==
    /\ pc = "element"
    /\ current.type = "link"
    /\ ~ShouldAddLink
    /\ Goto(Continue(secIdx, elIdx))
    /\ UNCHANGED <<htmlContent, config, sections, pendingImage, calls, handlerLog, faults>>
    /\ UNCHANGED <<parseVars, fnVars>>

AddLink ==
    /\ pc = "element"
    /\ current.type = "link"
    /\ ShouldAddLink
    /\ TryProcessThenAdd("addLinkElement", "processLink",
                         Spread(Spread(positions.link, applyLinkStyling), current.style),
                         Spread(positions.link, current.style))
    /\ UNCHANGED <<htmlContent, config, sections, pendingImage>>
    /\ UNCHANGED <<parseVars, fnVars>>

-----------------------------------------------------------------------------
(* Specification of one createSlides call *)

\* no method is being called directly
IdleFn ==
    /\ input = <<>>
    /\ output = <<>>
    /\ fpc = "idle"

IdleParser ==
    /\ doc = [body |-> <<>>, pageTitle |-> <<>>]
    /\ strategy = [kind |-> "none", customSelector |-> "none"]
    /\ parsed = <<>>
    /\ ppc = "idle"

Init ==
    /\ htmlContent \in HTMLContents
    /\ config \in Configs
    /\ pc = "createSlides"
    /\ sections = <<>>
    /\ secIdx = 0
    /\ elIdx = 0
    /\ pendingImage = NoPending
    /\ calls = <<>>
    /\ handlerLog = <<>>
    /\ result = "pending"
    /\ error = NoError
    /\ faults = 0
    /\ IdleParser
    /\ IdleFn

Next ==
    \/ Initialize
    \/ CreatePresentation
    \/ AddSlide
    \/ AddText
    \/ SkipImage
    \/ StartImage
    \/ ImageResolved
    \/ ImageRejected
    \/ AddTable
    \/ AddList
    \/ SkipLink
    \/ AddLink

Spec == Init /\ [][Next]_vars

-----------------------------------------------------------------------------
(* createSlides on documents whose elements carry a style, with every      *)
(* backend call returning and every image load settling                    *)

\* element.style: no override, or one that sets x, w and h and leaves y
ElementStyles == {NoStyle, Rect(Num(10), Undefined, Num(20), Num(30))}

InitStyled ==
    /\ htmlContent \in
          {[sections |->
               [i \in 1..Len(ss) |->
                   Section(SectionTitle(i),
                           [e \in 1..Len(ss[i]) |-> [ss[i][e] EXCEPT !.style = style]])],
            resources |-> NoResources] :
              ss \in UNION {SectionListsOf(n, MaxElems - 1) : n \in 1..MaxSections},
              style \in ElementStyles}
    /\ config \in {c \in Configs : c.slideLayout = "standard"}
    /\ pc = "createSlides"
    /\ sections = <<>>
    /\ secIdx = 0
    /\ elIdx = 0
    /\ pendingImage = NoPending
    /\ calls = <<>>
    /\ handlerLog = <<>>
    /\ result = "pending"
    /\ error = NoError
    /\ faults = 0
    /\ IdleParser
    /\ IdleFn

\* a backend call returns or throws, an awaited promise settles: no step of
\* createSlides that can be taken is put off forever
SpecStyled == InitStyled /\ [][Next]_vars /\ WF_vars(Next)

-----------------------------------------------------------------------------
(* DOM: the parsed body handed to HTMLParser.extractSections.              *)
(* A node is [tag, text, kids]; text is a sequence of characters.          *)

Node(tag, text, kids) == [tag |-> tag, text |-> text, kids |-> kids]

LeafNodes ==
    {Node("h1", <<"a">>, <<>>), Node("h1", <<>>, <<>>), Node("h2", <<"b">>, <<>>),
     Node("p", <<"c">>, <<>>), Node("#text", <<" ">>, <<>>), Node("#text", <<"d">>, <<>>)}

ContainerNodes ==
    {Node("div", <<>>, kids) : kids \in UNION {[1..n -> LeafNodes] : n \in 0..MaxKids}}

Weight(node) == 1 + Len(node.kids)

\* forests of at most n trees and at most `budget` nodes in all
RECURSIVE BodiesOf(_, _, _)
BodiesOf(nodes, n, budget) ==
    IF n = 0 \/ budget = 0 THEN {<<>>}
    ELSE {<<>>} \cup
         UNION {{<<node>> \o rest : rest \in BodiesOf(nodes, n - 1, budget - Weight(node))} :
                    node \in {x \in nodes : Weight(x) <= budget}}

Bodies == BodiesOf(LeafNodes \cup ContainerNodes, MaxBody, MaxNodes)

SplitStrategies ==
    {[kind |-> k, customSelector |-> "absent"] : k \in {"h1", "h2", "custom", "none"}}
    \cup {[kind |-> "custom", customSelector |-> "p"]}

\* Node.textContent
RECURSIVE TextContent(_)
TextContent(node) ==
    IF node.kids = <<>> THEN node.text
    ELSE Concat([j \in 1..Len(node.kids) |-> TextContent(node.kids[j])])

IsWhitespace(text) == \A i \in 1..Len(text) : text[i] = " "

\* body.innerHTML.trim() === ''
InnerHTMLBlank(body) ==
    \A i \in 1..Len(body) : body[i].tag = "#text" /\ IsWhitespace(body[i].text)

\* Element.querySelectorAll(tag): paths of the matching elements, document order
querySelectorAll(body, selector) ==
    Concat([i \in 1..Len(body) |->
        (IF body[i].tag = selector THEN <<<<i>>>> ELSE <<>>)
        \o Concat([j \in 1..Len(body[i].kids) |->
              IF body[i].kids[j].tag = selector THEN <<<<i, j>>>> ELSE <<>>])])

NodeAt(body, path) ==
    IF Len(path) = 1 THEN body[path[1]] ELSE body[path[1]].kids[path[2]]

\* the node list `path` lives in, and the path of its k-th member
SiblingList(body, path) == IF Len(path) = 1 THEN body ELSE body[path[1]].kids
SiblingPath(path, k) == IF Len(path) = 1 THEN <<k>> ELSE <<path[1], k>>
Position(path) == path[Len(path)]

\* the while loop over nextSibling: nodes after `path` up to nextHeader
RECURSIVE CollectSiblings(_, _, _, _)
CollectSiblings(body, path, k, nextHeader) ==
    IF k > Len(SiblingList(body, path)) \/ SiblingPath(path, k) = nextHeader
    THEN <<>>
    ELSE <<SiblingList(body, path)[k]>> \o CollectSiblings(body, path, k + 1, nextHeader)

\* HTMLParser.extractTitle; pageTitle is the <title> of the ambient document
extractTitle(body, pageTitle) ==
    LET firstWithText(tag) ==
            LET found == querySelectorAll(body, tag)
            IN  IF found = <<>> THEN <<>> ELSE TextContent(NodeAt(body, found[1]))
    IN  IF firstWithText("h1") # <<>> THEN TextTitle(firstWithText("h1"))
        ELSE IF firstWithText("h2") # <<>> THEN TextTitle(firstWithText("h2"))
        ELSE IF firstWithText("h3") # <<>> THEN TextTitle(firstWithText("h3"))
        ELSE IF pageTitle # <<>> THEN TextTitle(pageTitle)
        ELSE Untitled

ParsedSection(title, content) == [title |-> title, content |-> content, elements |-> <<>>]

\* faulty variant: every heading strategy selects <h2>
SelectorH2Always(strat) == "h2"

\* the switch over the strategy
Selector(strat) ==
    CASE strat.kind = "h1" -> "h1"
      [] strat.kind = "h2" -> "h2"
      [] strat.kind = "custom" ->
            IF strat.customSelector # "absent" THEN strat.customSelector ELSE "h1"

\* HTMLParser.extractSections; a section's content is the forest it serialises
extractSections(d, strat) ==
    IF InnerHTMLBlank(d.body)
    THEN <<ParsedSection(Untitled, <<>>)>>
    ELSE IF strat.kind = "none"
    THEN <<ParsedSection(extractTitle(d.body, d.pageTitle), d.body)>>
    ELSE LET sectionHeaders == querySelectorAll(d.body, Selector(strat))
             nextHeader(index) ==
                 IF index < Len(sectionHeaders) THEN sectionHeaders[index + 1] ELSE <<>>
         IN  IF Len(sectionHeaders) = 0
             THEN <<ParsedSection(extractTitle(d.body, d.pageTitle), d.body)>>
             ELSE [index \in 1..Len(sectionHeaders) |->
                     LET header == sectionHeaders[index]
                         text == TextContent(NodeAt(d.body, header))
                     IN  ParsedSection(
                            IF text # <<>> THEN TextTitle(text) ELSE SectionTitle(index),
                            <<NodeAt(d.body, header)>>
                              \o CollectSiblings(d.body, header, Position(header) + 1,
                                                 nextHeader(index)))]

ExtractSections ==
    /\ ppc = "extractSections"
    /\ parsed' = extractSections(doc, strategy)
    /\ ppc' = "done"
    /\ UNCHANGED <<doc, strategy>>
    /\ UNCHANGED <<slideVars, fnVars>>

IdleSlideCreator ==
    /\ htmlContent = [sections |-> <<>>, resources |-> NoResources]
    /\ config = [slideLayout |-> "standard", includeImages |-> TRUE,
                 preserveLinks |-> TRUE, theme |-> "default"]
    /\ pc = "idle"
    /\ sections = <<>>
    /\ secIdx = 0
    /\ elIdx = 0
    /\ pendingImage = NoPending
    /\ calls = <<>>
    /\ handlerLog = <<>>
    /\ result = "pending"
    /\ error = NoError
    /\ faults = 0

InitParse ==
    /\ doc \in [body : Bodies, pageTitle : {<<>>, <<"e">>}]
    /\ strategy \in SplitStrategies
    /\ parsed = <<>>
    /\ ppc = "extractSections"
    /\ IdleSlideCreator
    /\ IdleFn

NextParse == ExtractSections

SpecParse == InitParse /\ [][NextParse]_vars

-----------------------------------------------------------------------------
(* HTMLParser: resource extractors over a parsed forest of nodes           *)

\* getAttribute(...) === null; told apart from every string of characters
Absent == <<"null">>

Digits == <<"0", "1", "2", "3", "4", "5", "6", "7", "8", "9">>
IsDigit(c) == \E i \in 1..10 : Digits[i] = c
DigitValue(c) == (CHOOSE i \in 1..10 : Digits[i] = c) - 1

RECURSIVE TrimStart(_)
TrimStart(str) ==
    IF str # <<>> /\ Head(str) = " " THEN TrimStart(Tail(str)) ELSE str

RECURSIVE ParseDigits(_, _)
ParseDigits(str, acc) ==
    IF str = <<>> \/ ~IsDigit(Head(str)) THEN acc
    ELSE ParseDigits(Tail(str), 10 * acc + DigitValue(Head(str)))

\* parseInt(str, 10): optional blanks, optional sign, the leading digits
ParseInt(str) ==
    LET trimmed == TrimStart(str)
        signed == trimmed # <<>> /\ Head(trimmed) \in {"-", "+"}
        digits == IF signed THEN Tail(trimmed) ELSE trimmed
    IN  IF digits = <<>> \/ ~IsDigit(Head(digits)) THEN NaN
        ELSE IF signed /\ Head(trimmed) = "-" THEN Num(0 - ParseDigits(digits, 0))
        ELSE Num(ParseDigits(digits, 0))

\* a || b for an attribute value: null and '' are falsy
OrElse(attr, default) == IF attr = Absent \/ attr = <<>> THEN default ELSE attr

FirstTruthy(a, b, c) == IF Truthy(a) THEN a ELSE IF Truthy(b) THEN b ELSE c

\* an <img>: its attributes, its natural size and its computed style size
Img(src, width, height, natural, computed) ==
    [tag |-> "img", text |-> <<>>, kids |-> <<>>, src |-> src, width |-> width,
     height |-> height, natural |-> natural, computed |-> computed]

\* one dimension of extractImages:
\*   parseInt(attr || '0', 10) || natural || 0, then || computed || default
ImageDimension(attr, natural, computed, default) ==
    FirstTruthy(FirstTruthy(ParseInt(OrElse(attr, <<"0">>)), Num(natural), Num(0)),
                computed, Num(default)).v

\* the ImageResource extractImages builds for one <img>
ImageResource(img) ==
    [src |-> img.src,
     width |-> ImageDimension(img.width, img.natural.w, img.computed.w, 300),
     height |-> ImageDimension(img.height, img.natural.h, img.computed.h, 200)]

\* the paths of the nodes of a forest, in document order
NodePaths(forest) ==
    Concat([i \in 1..Len(forest) |->
        <<<<i>>>> \o [j \in 1..Len(forest[i].kids) |-> <<i, j>>]])

\* the nodes of a forest in document order, the order in which
\* querySelectorAll(selector).forEach visits those the selector matches
Descendants(forest) ==
    [k \in 1..Len(NodePaths(forest)) |-> NodeAt(forest, NodePaths(forest)[k])]

\* HTMLParser.extractImages: images without src are skipped
IsImage(node) == node.tag = "img" /\ OrElse(node.src, <<>>) # <<>>
extractImages(forest) ==
    LET found == SelectSeq(Descendants(forest), IsImage)
    IN  [k \in 1..Len(found) |-> ImageResource(found[k])]

\* a <table> written with <tbody> rows of <td> and, unless head is Absent,
\* a <thead> row of <th>
Table(head, body) ==
    [tag |-> "table", text |-> <<>>, kids |-> <<>>, head |-> head, body |-> body]

\* an entry of cellDetails for a <td> without attributes, and the entry null
CellDetail(content) == [content |-> content, colSpan |-> 1, rowSpan |-> 1]
NullCell == [content |-> "null", colSpan |-> 0, rowSpan |-> 0]

\* the TableResource extractTables builds: the header row is the <thead>
\* row, else the first <tr>; the rows are the <tbody> rows that have cells
\* row r of style.cellDetails is read from the r-th row of rowsToProcess
\* (the <tbody> rows, those without cells included); a cell that row does
\* not have gives null
TableResource(table) ==
    LET rows == SelectSeq(table.body, LAMBDA row : row # <<>>)
        cellElement(rowIndex, cellIndex) ==
            IF cellIndex <= Len(table.body[rowIndex])
            THEN CellDetail(table.body[rowIndex][cellIndex]) ELSE NullCell
    IN  [headers |-> IF table.head # Absent THEN table.head
                     ELSE IF table.body # <<>> THEN table.body[1] ELSE <<>>,
         rows |-> rows,
         style |-> [cellDetails |->
                       [rowIndex \in 1..Len(rows) |->
                           [cellIndex \in 1..Len(rows[rowIndex]) |->
                               cellElement(rowIndex, cellIndex)]]]]

IsTable(node) == node.tag = "table"
extractTables(forest) ==
    LET found == SelectSeq(Descendants(forest), IsTable)
    IN  [k \in 1..Len(found) |-> TableResource(found[k])]

\* a <ul> or <ol> with its <li> items and its type and start attributes
List(tag, items, type, start) ==
    [tag |-> tag, text |-> <<>>, kids |-> <<>>, items |-> items, type |-> type,
     start |-> start]

ListResource(list) ==
    [items |-> list.items,
     ordered |-> list.tag = "ol",
     style |-> [type |-> OrElse(list.type, IF list.tag = "ol" THEN <<"1">>
                                           ELSE <<"d", "i", "s", "c">>),
                start |-> OrElse(list.start, <<"1">>)]]

\* HTMLParser.extractLists: lists without items are skipped
IsList(node) == node.tag \in {"ul", "ol"} /\ node.items # <<>>
extractLists(forest) ==
    LET found == SelectSeq(Descendants(forest), IsList)
    IN  [k \in 1..Len(found) |-> ListResource(found[k])]

TextTags ==
    {"p", "h1", "h2", "h3", "h4", "h5", "h6", "span", "b", "strong", "i", "em",
     "u", "s", "strike", "sup", "sub"}

\* HTMLParser.extractFormattedText: the selector list, with
\* div:not(:has(>*)); elements whose text is blank are skipped
IsText(node) ==
    /\ \/ node.tag \in TextTags
       \/ node.tag = "div" /\ \A j \in 1..Len(node.kids) : node.kids[j].tag = "#text"
    /\ ~IsWhitespace(TextContent(node))

\* parseInt(element.tagName.substring(1), 10) for H1..H6, else undefined (0)
HeadingLevel(tag) ==
    CASE tag = "h1" -> 1 [] tag = "h2" -> 2 [] tag = "h3" -> 3
      [] tag = "h4" -> 4 [] tag = "h5" -> 5 [] tag = "h6" -> 6 [] OTHER -> 0

TextResource(node) ==
    [content |-> IF node.kids = <<>> THEN node.text ELSE node.kids,
     headingLevel |-> HeadingLevel(node.tag)]

extractFormattedText(forest) ==
    LET found == SelectSeq(Descendants(forest), IsText)
    IN  [k \in 1..Len(found) |-> TextResource(found[k])]

\* an <a> with its href attribute and its text
Anchor(href, text) ==
    [tag |-> "a", text |-> text, kids |-> <<>>, href |-> href]

SlideElement(type, content) == [type |-> type, content |-> content]

\* the section.elements parseHTML fills in: images, tables, lists, texts
SectionElements(content) ==
    [k \in 1..Len(extractImages(content)) |->
        SlideElement("image", extractImages(content)[k])]
    \o [k \in 1..Len(extractTables(content)) |->
        SlideElement("table", extractTables(content)[k])]
    \o [k \in 1..Len(extractLists(content)) |->
        SlideElement("list", extractLists(content)[k])]
    \o [k \in 1..Len(extractFormattedText(content)) |->
        SlideElement("text", extractFormattedText(content)[k])]

\* HTMLParser.parseHTML on a document whose markup passed validateHTML or,
\* with malformed, did not
parseHTML(in) ==
    IF in.malformed THEN [error |-> "HTMLParsingError"]
    ELSE LET found == extractSections([body |-> in.body, pageTitle |-> in.pageTitle],
                                      in.strategy)
         IN  [sections |-> [k \in 1..Len(found) |->
                               [found[k] EXCEPT !.elements = SectionElements(found[k].content)]],
              resources |-> [images |-> extractImages(in.body),
                             tables |-> extractTables(in.body),
                             lists |-> extractLists(in.body),
                             links |-> <<>>,
                             texts |-> extractFormattedText(in.body)]]

-----------------------------------------------------------------------------
(* TableHandler.processTable: src/src/services/conversion/LinkHandler.ts   *)

\* while (row.length < maxColumns) row.push('')
PadRight(row, maxColumns) ==
    row \o [c \in 1..(maxColumns - Len(row)) |-> <<>>]

\* faulty variant: the rows are padded to the header count only
normalizeTableDimensionsToHeaders(table) ==
    [table EXCEPT !.headers = PadRight(@, Len(table.headers)),
                  !.rows = [r \in 1..Len(@) |-> PadRight(@[r], Len(table.headers))]]

\* TableHandler.normalizeTableDimensions
normalizeTableDimensions(table) ==
    LET \* rows.forEach(row => maxColumns = Math.max(maxColumns, row.length))
        RECURSIVE forEach(_, _)
        forEach(rows, max) ==
            IF rows = <<>> THEN max
            ELSE forEach(Tail(rows), IF Len(Head(rows)) > max THEN Len(Head(rows)) ELSE max)
        maxColumns == forEach(table.rows, Len(table.headers))
    IN  [table EXCEPT !.headers = PadRight(@, maxColumns),
                      !.rows = [r \in 1..Len(@) |-> PadRight(@[r], maxColumns)]]

\* a style object; a key that is not set reads as "undefined"
TableStyle(border, width, cellPadding, backgroundColor, textAlign) ==
    [border |-> border, width |-> width, cellPadding |-> cellPadding,
     backgroundColor |-> backgroundColor, textAlign |-> textAlign]

\* TableHandler.processTable: copy, normalize, fill in the style defaults
processTable(table) ==
    LET default(value, fallback) == IF value \in {"undefined", ""} THEN fallback ELSE value
        style == table.style
    IN  [normalizeTableDimensions(table) EXCEPT
            !.style = TableStyle(IF style.border # "undefined" THEN style.border ELSE "true",
                                 default(style.width, "100%"),
                                 default(style.cellPadding, "5"),
                                 default(style.backgroundColor, "transparent"),
                                 default(style.textAlign, "left"))]

-----------------------------------------------------------------------------
(* ListHandler.determineBulletType: src/src/services/conversion/ListHandler.ts *)

Bullet(type, code, numberType, startAt) ==
    [type |-> type, code |-> code, numberType |-> numberType, startAt |-> startAt]

\* ListHandler.determineBulletType; a missing style reads as a style whose
\* type and start are Absent
determineBulletType(list) ==
    IF ~list.ordered THEN Bullet("bullet", "disc glyph", "undefined", Undefined)
    ELSE Bullet("number", "undefined",
                CASE list.style.type = <<"A">> -> "upperLetter"
                  [] list.style.type = <<"a">> -> "lowerLetter"
                  [] list.style.type = <<"I">> -> "upperRoman"
                  [] list.style.type = <<"i">> -> "lowerRoman"
                  [] OTHER -> "decimal",
                IF OrElse(list.style.start, <<>>) # <<>> /\ list.style.start # <<"1">>
                THEN ParseInt(list.style.start) ELSE Undefined)

\* PptxGenerator.addListElement: the bullet of the options it hands to
\* slide.addText when its caller supplies none
addListElement(list) ==
    IF ~list.ordered THEN Bullet("bullet", "mis-encoded disc glyph", "undefined", Undefined)
    ELSE Bullet("number", "undefined",
                CASE list.style.type = <<"A">> -> "upperLetter"
                  [] list.style.type = <<"a">> -> "lowerLetter"
                  [] list.style.type = <<"I">> -> "upperRoman"
                  [] list.style.type = <<"i">> -> "lowerRoman"
                  [] OTHER -> "undefined",
                IF OrElse(list.style.start, <<>>) # <<>> /\ list.style.start # <<"1">>
                THEN ParseInt(list.style.start) ELSE Undefined)

-----------------------------------------------------------------------------
(* TextElementGenerator.generateComplexTextElements: src/unnamed/part_007  *)

\* TextElementGenerator.getNodeFormatting for an element without style attribute
getNodeFormatting(element) ==
    [headingLevel |-> HeadingLevel(element.tag),
     bold |-> element.tag \in {"strong", "b"},
     italic |-> element.tag \in {"em", "i"},
     underline |-> element.tag = "u",
     strikethrough |-> element.tag \in {"s", "strike", "del"},
     superscript |-> element.tag = "sup",
     subscript |-> element.tag = "sub"]

\* TextElementGenerator.processNodeForTextElements: the runs pushed for node,
\* a child of parent
RECURSIVE processNodeForTextElements(_, _)
processNodeForTextElements(node, parent) ==
    IF IsWhitespace(TextContent(node)) THEN <<>>
    ELSE IF node.tag = "#text"
    THEN <<[content |-> node.text, format |-> getNodeFormatting(parent)]>>
    ELSE IF Len(node.kids) = 1 /\ node.kids[1].tag = "#text"
    THEN <<[content |-> TextContent(node), format |-> getNodeFormatting(node)]>>
    ELSE Concat([j \in 1..Len(node.kids) |->
                    processNodeForTextElements(node.kids[j], node)])

\* TextElementGenerator.generateComplexTextElements: the fragment becomes the
\* content of a temporary <div>, which has no parent
generateComplexTextElements(fragment) ==
    processNodeForTextElements(Node("div", <<>>, fragment), Node("none", <<>>, <<>>))

-----------------------------------------------------------------------------
(* ImageHandler.calculateOptimalDimensions: src/src/services/conversion/ImageHandler.ts *)

\* faulty variant: the height limit is only looked at when the width fits
calculateOptimalDimensionsElseIf(width, height, maxWidth, maxHeight, preserveAspectRatio) ==
    IF maxWidth = 0 /\ maxHeight = 0 THEN [width |-> width, height |-> height]
    ELSE IF maxWidth # 0 /\ width > maxWidth
    THEN [width |-> maxWidth,
          height |-> IF preserveAspectRatio
                     THEN (2 * maxWidth * height + width) \div (2 * width) ELSE height]
    ELSE IF maxHeight # 0 /\ height > maxHeight
    THEN [width |-> IF preserveAspectRatio
                    THEN (2 * maxHeight * width + height) \div (2 * height) ELSE width,
          height |-> maxHeight]
    ELSE [width |-> width, height |-> height]

\* ImageHandler.calculateOptimalDimensions for whole numbers; a limit of 0
\* stands for a limit that is not given (both are falsy)
calculateOptimalDimensions(width, height, maxWidth, maxHeight, preserveAspectRatio) ==
    LET \* Math.round((a / b) * c) for b > 0: halves go up
        round(a, b, c) == (2 * a * c + b) \div (2 * b)
        widthLimited == maxWidth # 0 /\ width > maxWidth
        newWidth == IF widthLimited THEN maxWidth ELSE width
        newHeight == IF widthLimited /\ preserveAspectRatio
                     THEN round(newWidth, width, height) ELSE height
        heightLimited == maxHeight # 0 /\ newHeight > maxHeight
    IN  IF maxWidth = 0 /\ maxHeight = 0 THEN [width |-> width, height |-> height]
        ELSE [width |-> IF heightLimited /\ preserveAspectRatio
                        THEN round(maxHeight, height, width) ELSE newWidth,
              height |-> IF heightLimited THEN maxHeight ELSE newHeight]

-----------------------------------------------------------------------------
(* ListHandler.processList: src/src/services/conversion/ListHandler.ts     *)

\* \s: the blank and the line break
Whitespace == {" ", "\n"}

\* String.prototype.trim
RECURSIVE Trim(_)
Trim(str) ==
    IF str = <<>> THEN str
    ELSE IF Head(str) \in Whitespace THEN Trim(Tail(str))
    ELSE IF str[Len(str)] \in Whitespace THEN Trim(SubSeq(str, 1, Len(str) - 1))
    ELSE str

\* replace(/\s+/g, ' ')
RECURSIVE CollapseWhitespace(_)
CollapseWhitespace(str) ==
    IF str = <<>> THEN str
    ELSE IF Head(str) \notin Whitespace THEN <<Head(str)>> \o CollapseWhitespace(Tail(str))
    ELSE IF Len(str) > 1 /\ str[2] \in Whitespace THEN CollapseWhitespace(Tail(str))
    ELSE <<" ">> \o CollapseWhitespace(Tail(str))

\* the index at which pattern first occurs in str at or after from, letters
\* compared without case; Len(str) + 1 when it does not occur
Search(str, pattern, from) ==
    LET lower(s) == [i \in 1..Len(s) |-> ToLower(s[i])]
        found == {i \in from..(Len(str) - Len(pattern) + 1) :
                     lower(SubSeq(str, i, i + Len(pattern) - 1)) = pattern}
    IN  IF found = {} THEN Len(str) + 1 ELSE CHOOSE i \in found : \A j \in found : i <= j

\* textContent of a <div> whose innerHTML is html: the characters outside
\* the tags, each character reference read as the character it stands for
textContent(html) ==
    LET text == StripTags(html, FALSE)
    IN  [i \in 1..Len(text) |-> CASE text[i] = "&lt;" -> "<"
                                  [] text[i] = "&gt;" -> ">"
                                  [] OTHER -> text[i]]

\* ListHandler.stripHtmlPreserveFormatting for markup without <br> and <p>
stripHtmlPreserveFormatting(html) == Trim(CollapseWhitespace(textContent(html)))

\* ListHandler.extractNestedListItems: the textContent of every <li> that
\* lies in a <ul> or <ol> of the markup, lists not nested in one another
extractNestedListItems(html) ==
    LET ul == <<"<", "u", "l", ">">>
        ol == <<"<", "o", "l", ">">>
        li == <<"<", "l", "i", ">">>
        endLi == <<"<", "/", "l", "i", ">">>
        firstList == Min(Search(html, ul, 1), Search(html, ol, 1))
        opens == SelectSeq([i \in 1..Len(html) |-> i],
                           LAMBDA i : i > firstList /\ Search(html, li, i) = i)
    IN  [k \in 1..Len(opens) |->
            textContent(SubSeq(html, opens[k] + Len(li),
                               Search(html, endLi, opens[k]) - 1))]

\* the indentation and the bullet put before a nested item: '    • '
NestedItemPrefix == <<" ", " ", " ", " ", "disc glyph", " ">>

\* ListHandler.processNestedListItem
processNestedListItem(item) ==
    LET ul == <<"<", "u", "l", ">">>
        ol == <<"<", "o", "l", ">">>
        firstList == Min(Search(item, ul, 1), Search(item, ol, 1))
        mainContent == Trim(SubSeq(item, 1, firstList - 1))
        nestedItems == extractNestedListItems(item)
    IN  IF firstList > Len(item) THEN item
        ELSE mainContent \o Concat([k \in 1..Len(nestedItems) |->
                                       <<"\n">> \o NestedItemPrefix \o nestedItems[k]])

\* ListHandler.formatListItems
formatListItems(items) ==
    [k \in 1..Len(items) |-> processNestedListItem(stripHtmlPreserveFormatting(items[k]))]

\* ListHandler.handleNestedLists
handleNestedLists(items) == [k \in 1..Len(items) |-> processNestedListItem(items[k])]

\* ListHandler.processList: a copy of the list with its items formatted and
\* the defaults of its style filled in
processList(list) ==
    [items |-> formatListItems(list.items),
     ordered |-> list.ordered,
     style |-> [type |-> OrElse(list.style.type,
                                IF list.ordered THEN <<"1">> ELSE <<"d", "i", "s", "c">>),
                start |-> OrElse(list.style.start, <<"1">>),
                fontSize |-> "12pt", fontFamily |-> "Arial", color |-> "#000000",
                textAlign |-> "left"]]

\* innerHTML of an <li> that holds the characters of text and then, unless
\* nested is empty, a <ul> with one <li> for each text of nested: the form in
\* which extractLists stores an item
innerHTML(li) ==
    LET escape(text) == [i \in 1..Len(text) |-> CASE text[i] = "<" -> "&lt;"
                                                  [] text[i] = ">" -> "&gt;"
                                                  [] OTHER -> text[i]]
    IN  escape(li.text) \o
        (IF li.nested = <<>> THEN <<>>
         ELSE <<"<", "u", "l", ">">> \o
              Concat([k \in 1..Len(li.nested) |->
                         <<"<", "l", "i", ">">> \o escape(li.nested[k]) \o
                         <<"<", "/", "l", "i", ">">>]) \o
              <<"<", "/", "u", "l", ">">>)

\* faulty variant: processedTable.headers is table.headers itself, so the
\* padding is pushed onto the argument's headers
ArgumentAfterShared(fn, arg) ==
    IF fn = "processTable" THEN [arg EXCEPT !.headers = processTable(arg).headers] ELSE arg

\* what a handler leaves in the object it was given. A write to the handler's
\* working object shows in the argument only where the two share an array
\* or object: processTable writes to {headers: [...table.headers], rows:
\* table.rows.map(row => [...row]), style: {...table.style}}, processList to
\* {items: [...list.items], ordered, style: {...list.style}}, and neither
\* shares anything with the argument
ArgumentAfter(fn, arg) ==
    LET after(shared, original, written) == IF shared THEN written ELSE original
    IN  CASE fn = "processTable" ->
                [arg EXCEPT !.headers = after(FALSE, @, processTable(arg).headers),
                            !.rows = after(FALSE, @, processTable(arg).rows),
                            !.style = after(FALSE, @, processTable(arg).style)]
          [] fn = "processList" ->
                [arg EXCEPT !.list = after(FALSE, @, processList(arg.list))]
          [] OTHER -> arg

-----------------------------------------------------------------------------
(* Direct calls of the parser's and the handlers' methods                  *)

\* the strings of at most n characters of an alphabet
Strings(alphabet, n) == UNION {[1..k -> alphabet] : k \in 0..n}

\* normalizeUrl(url): the strings made of at most MaxUrlParts parts
Urls ==
    LET parts == {<<"h", "t", "t", "p">>, <<"H", "T", "T", "P">>,
                  <<"h", "t", "t", "p", "s">>, <<":">>, <<":", "/", "/">>, <<"/">>,
                  <<"#">>, <<"x">>, <<"1">>}
    IN  {Concat(ps) : ps \in Strings(parts, MaxUrlParts)}

\* parseHTML(html, splitStrategy, customSelector): a document that passes
\* validateHTML, or markup that does not
Markups ==
    LET anchors == {Anchor(<<"x">>, <<"l">>), Anchor(Absent, <<"l">>),
                    Anchor(<<"x">>, <<" ">>)}
        leaves == {Node("h1", <<"a">>, <<>>), Node("p", <<"c">>, <<>>),
                   Img(<<"x">>, Absent, Absent, [w |-> 0, h |-> 0], [w |-> NaN, h |-> NaN]),
                   Table(<<"h">>, <<<<"1", "2">>>>),
                   List("ul", <<<<"i">>>>, Absent, Absent)} \cup anchors
        containers == {Node("div", <<>>, kids) : kids \in Strings(leaves, MaxKids)}
    IN  [body : BodiesOf(leaves \cup containers, MaxBody, MaxNodes),
         pageTitle : {<<>>}, strategy : SplitStrategies, malformed : {FALSE}]
        \cup [body : {<<>>}, pageTitle : {<<>>}, strategy : SplitStrategies,
              malformed : {TRUE}]

\* processTable(table): cell (r, c) reads "rc"; the header row is row 0
Tables ==
    LET cell(r, c) == <<Digits[r + 1], Digits[c + 1]>>
        row(r, n) == [c \in 1..n |-> cell(r, c)]
    IN  {[headers |-> row(0, h),
          rows |-> [r \in 1..Len(lengths) |-> row(r, lengths[r])],
          style |-> style] :
            h \in 0..MaxCols, lengths \in Strings(0..MaxCols, MaxRows),
            style \in {TableStyle("undefined", "undefined", "undefined", "undefined",
                                  "undefined"),
                       TableStyle("false", "50%", "", "red", "center")}}

\* extractTables(doc): a document holding one <table> whose cells each
\* read as their own row and column
TableElements ==
    LET cell == <<<<"r1c1", "r1c2", "r1c3">>, <<"r2c1", "r2c2", "r2c3">>,
                  <<"r3c1", "r3c2", "r3c3">>>>
        row(r, n) == [c \in 1..n |-> cell[r][c]]
    IN  {<<Table(head, [r \in 1..Len(lengths) |-> row(r, lengths[r])])>> :
            head \in {Absent, <<"h">>}, lengths \in Strings(0..MaxCols, MaxRows)}

\* processList(list): the list extractLists builds for a <ul> that holds one
\* <li>, kept with that <li>: plain text, text to be trimmed, text that shows
\* markup, each with up to MaxNested items of a nested <ul>
ListItems ==
    {[li |-> li, list |-> ListResource(List("ul", <<innerHTML(li)>>, Absent, Absent))] :
        li \in [text : {<<"a">>, <<"a", " ">>, <<"a", "<", "b", ">", "c">>,
                        <<"a", "<", "u", "l", ">", "<", "l", "i", ">", "b",
                          "<", "/", "u", "l", ">">>},
                nested : Strings({<<"b">>, <<"c">>}, MaxNested)]}

\* determineBulletType(list)
Lists ==
    [ordered : BOOLEAN,
     style : [type : {Absent, <<>>, <<"1">>, <<"A">>, <<"a">>, <<"I">>, <<"i">>, <<"x">>,
                      <<"d", "i", "s", "c">>},
              start : {Absent} \cup Strings({"1", "5", "x"}, MaxAttrLen)]]

\* generateComplexTextElements(htmlContent): the forests of exactly n nodes
\* that markup parses to (no two text nodes adjoin)
RECURSIVE FragmentsOf(_)
FragmentsOf(n) ==
    IF n = 0 THEN {<<>>}
    ELSE LET texts == {Node("#text", t, <<>>) : t \in {<<"a">>, <<" ">>}}
             \* the elements of w nodes
             elements(w) == {Node(tag, <<>>, kids) :
                                tag \in {"strong", "em"}, kids \in FragmentsOf(w - 1)}
         IN  {<<text>> \o rest :
                 text \in texts,
                 rest \in {f \in FragmentsOf(n - 1) : f = <<>> \/ f[1].tag # "#text"}}
             \cup UNION {{<<element>> \o rest :
                             element \in elements(w), rest \in FragmentsOf(n - w)} :
                         w \in 1..n}

\* extractImages(doc): a document holding one <img>
Imgs ==
    LET attrs == {Absent} \cup Strings({"-", "0", "5"}, MaxAttrLen)
    IN  {<<Img(src, width, height, [w |-> natural, h |-> natural],
               [w |-> computed, h |-> computed])>> :
            src \in {Absent, <<"x">>}, width \in attrs, height \in attrs,
            natural \in {0, 7}, computed \in {NaN, Num(0), Num(9)}}

\* a call of method fn with one of args
Invoked(fn, args) == input \in {[fn |-> fn, arg |-> a] : a \in args}

NormalizeUrl ==
    /\ fpc = "call"
    /\ input.fn = "normalizeUrl"
    /\ output' = <<normalizeUrl(input.arg)>>
    /\ fpc' = "returned"
    /\ UNCHANGED <<input, slideVars, parseVars>>

\* the caller normalizes what it got back
NormalizeUrlAgain ==
    /\ fpc = "returned"
    /\ input.fn = "normalizeUrl"
    /\ output' = Append(output, normalizeUrl(output[1]))
    /\ fpc' = "done"
    /\ UNCHANGED <<input, slideVars, parseVars>>

ParseHTML ==
    /\ fpc = "call"
    /\ input.fn = "parseHTML"
    /\ output' = <<parseHTML(input.arg)>>
    /\ fpc' = "returned"
    /\ UNCHANGED <<input, slideVars, parseVars>>

ProcessTable ==
    /\ fpc = "call"
    /\ input.fn = "processTable"
    /\ output' = <<processTable(input.arg)>>
    /\ input' = [input EXCEPT !.arg = ArgumentAfter("processTable", @)]
    /\ fpc' = "returned"
    /\ UNCHANGED <<slideVars, parseVars>>

DetermineBulletType ==
    /\ fpc = "call"
    /\ input.fn = "determineBulletType"
    /\ output' = <<determineBulletType(input.arg)>>
    /\ fpc' = "returned"
    /\ UNCHANGED <<input, slideVars, parseVars>>

GenerateComplexTextElements ==
    /\ fpc = "call"
    /\ input.fn = "generateComplexTextElements"
    /\ output' = <<generateComplexTextElements(input.arg)>>
    /\ fpc' = "returned"
    /\ UNCHANGED <<input, slideVars, parseVars>>

ExtractImages ==
    /\ fpc = "call"
    /\ input.fn = "extractImages"
    /\ output' = <<extractImages(input.arg)>>
    /\ fpc' = "returned"
    /\ UNCHANGED <<input, slideVars, parseVars>>

ProcessList ==
    /\ fpc = "call"
    /\ input.fn = "processList"
    /\ output' = <<processList(input.arg.list)>>
    /\ input' = [input EXCEPT !.arg = ArgumentAfter("processList", @)]
    /\ fpc' = "returned"
    /\ UNCHANGED <<slideVars, parseVars>>

\* what addElementToSlide does with the processed list: the items are
\* formatted again and handleNestedLists gives the items of the backend call
FormatListForBackend ==
    /\ fpc = "returned"
    /\ input.fn = "processList"
    /\ LET formattedItems == formatListItems(output[1].items)
       IN  output' = output \o <<formattedItems, handleNestedLists(formattedItems)>>
    /\ fpc' = "done"
    /\ UNCHANGED <<input, slideVars, parseVars>>

ExtractTables ==
    /\ fpc = "call"
    /\ input.fn = "extractTables"
    /\ output' = <<extractTables(input.arg)>>
    /\ fpc' = "returned"
    /\ UNCHANGED <<input, slideVars, parseVars>>

AddListElement ==
    /\ fpc = "call"
    /\ input.fn = "addListElement"
    /\ output' = <<addListElement(input.arg)>>
    /\ fpc' = "returned"
    /\ UNCHANGED <<input, slideVars, parseVars>>

CalculateOptimalDimensions ==
    /\ fpc = "call"
    /\ input.fn = "calculateOptimalDimensions"
    /\ output' = <<calculateOptimalDimensions(input.arg.width, input.arg.height,
                                              input.arg.maxWidth, input.arg.maxHeight,
                                              input.arg.preserveAspectRatio)>>
    /\ fpc' = "returned"
    /\ UNCHANGED <<input, slideVars, parseVars>>

InitCalls ==
    /\ \/ Invoked("normalizeUrl", Urls)
       \/ Invoked("parseHTML", Markups)
       \/ Invoked("processTable", Tables)
       \/ Invoked("determineBulletType", Lists)
       \/ Invoked("generateComplexTextElements",
                  UNION {FragmentsOf(n) : n \in 0..MaxFragNodes})
       \/ Invoked("extractImages", Imgs)
       \/ Invoked("processList", ListItems)
       \/ Invoked("extractTables", TableElements)
       \/ Invoked("addListElement", Lists)
       \/ Invoked("calculateOptimalDimensions",
                  [width : 1..MaxDim, height : 1..MaxDim, maxWidth : 0..(MaxDim + 1),
                   maxHeight : 0..(MaxDim + 1), preserveAspectRatio : BOOLEAN])
    /\ output = <<>>
    /\ fpc = "call"
    /\ IdleSlideCreator
    /\ IdleParser

NextCalls ==
    \/ NormalizeUrl
    \/ NormalizeUrlAgain
    \/ ParseHTML
    \/ ProcessTable
    \/ DetermineBulletType
    \/ GenerateComplexTextElements
    \/ ExtractImages
    \/ CalculateOptimalDimensions
    \/ AddListElement
    \/ ExtractTables
    \/ ProcessList
    \/ FormatListForBackend

SpecCalls == InitCalls /\ [][NextCalls]_vars

\* a run of createSlides or one direct call
InitFrame == Init \/ InitCalls
NextFrame == Next \/ NextCalls
SpecFrame == InitFrame /\ [][NextFrame]_vars

-----------------------------------------------------------------------------
(* Vocabulary of the properties *)

OpFor(type) ==
    CASE type = "text" -> "addTextElement"
      [] type = "image" -> "addImageElement"
      [] type = "table" -> "addTableElement"
      [] type = "list" -> "addListElement"
      [] type = "link" -> "addLinkElement"

CallIdx == 1..Len(calls)
LogIdx == 1..Len(handlerLog)

\* positions (section, element) of the sections being rendered
ElementPositions ==
    {<<s, e>> \in (1..Len(sections)) \X (1..(MaxElems + MaxDocNodes + 1)) :
        e <= Len(sections[s].elements)}

\* element e of section s was handed to the backend and the backend took it
Rendered(s, e) ==
    \E i \in CallIdx :
        /\ calls[i].sec = s /\ calls[i].el = e /\ calls[i].ok
        /\ calls[i].op = OpFor(sections[s].elements[e].type)

\* the configuration lets the element through
Renderable(el) ==
    /\ el.type = "image" => config.includeImages
    /\ el.type = "link" => config.preserveLinks

HandlerFailedAt(s, e) ==
    \E k \in LogIdx :
        /\ handlerLog[k].sec = s /\ handlerLog[k].el = e
        /\ handlerLog[k].event \in {"threw", "rejected"}

NoBackendFailure == \A i \in CallIdx : calls[i].ok

-----------------------------------------------------------------------------
(* C1: the backend calls follow document order: per section one addSlide,  *)
(* then the add calls of its elements in the order of section.elements; no *)
(* call of a later section or element precedes one of an earlier one,      *)
(* whenever processImage settles.                                          *)
C1_DocumentOrder ==
    /\ \A i, j \in CallIdx :
          (i < j /\ calls[i].sec >= 1) =>
             \/ calls[i].sec < calls[j].sec
             \/ calls[i].sec = calls[j].sec /\ calls[i].el <= calls[j].el
    /\ \A j \in CallIdx :
          calls[j].el >= 1 =>
             /\ calls[j].op = OpFor(sections[calls[j].sec].elements[calls[j].el].type)
             /\ \E i \in 1..(j - 1) :
                   calls[i].op = "addSlide" /\ calls[i].sec = calls[j].sec /\ calls[i].ok
    /\ \A i, j \in CallIdx :
          (calls[i].op = "addSlide" /\ calls[j].op = "addSlide" /\ calls[i].sec = calls[j].sec)
             => i = j
    /\ faults = 0 =>
          \A i, j \in CallIdx :
              (calls[i].sec >= 1 /\ calls[i].sec = calls[j].sec /\ calls[i].el = calls[j].el)
                 => i = j
    /\ result = "resolved" =>
          /\ \A s \in 1..Len(sections) :
                \E i \in CallIdx : calls[i].op = "addSlide" /\ calls[i].sec = s
          /\ \A p \in ElementPositions :
                Renderable(sections[p[1]].elements[p[2]]) => Rendered(p[1], p[2])
          /\ Len(htmlContent.sections) > 0 => sections = htmlContent.sections

C1_Witness ==
    /\ result = "resolved"
    /\ Len(sections) = 2
    /\ \E h, i, j, k \in CallIdx :
          /\ h < i /\ i < j /\ j < k
          /\ calls[h].op = "addSlide" /\ calls[h].sec = 1
          /\ calls[i].op = "addImageElement" /\ calls[i].sec = 1 /\ calls[i].el = 1
          /\ calls[j].op = "addTextElement" /\ calls[j].sec = 1 /\ calls[j].el = 2
          /\ calls[k].op = "addSlide" /\ calls[k].sec = 2

(* C2: when a handler step fails for an element (and the backend accepts  *)
(* every call), the element is still handed to the backend in its original *)
(* form, createSlides resolves and every element the configuration lets    *)
(* through is rendered.                                                    *)
C2_HandlerFailureRecovered ==
    \A p \in ElementPositions :
        (HandlerFailedAt(p[1], p[2]) /\ NoBackendFailure) =>
            /\ \E i \in CallIdx :
                  /\ calls[i].sec = p[1] /\ calls[i].el = p[2] /\ calls[i].ok
                  /\ calls[i].form = "original"
                  /\ calls[i].content = sections[p[1]].elements[p[2]].content
            /\ pc = "done" =>
                  /\ result = "resolved"
                  /\ \A q \in ElementPositions :
                        Renderable(sections[q[1]].elements[q[2]]) => Rendered(q[1], q[2])

C2_Witness ==
    /\ result = "resolved"
    /\ NoBackendFailure
    /\ Len(sections) = 2
    /\ Len(sections[1].elements) = 2
    /\ HandlerFailedAt(1, 1)
    /\ sections[1].elements[1].type = "table"
    /\ Rendered(1, 2)
    /\ \E i \in CallIdx : calls[i].op = "addSlide" /\ calls[i].sec = 2

(* C3: when processImage rejects, addImageElement is still called with the *)
(* original ImageResource and its geometry is the image's original width   *)
(* and height.                                                             *)
C3_FallbackOriginalGeometry ==
    \A k \in LogIdx :
        (handlerLog[k].handler = "processImage" /\ handlerLog[k].event = "rejected") =>
            LET image == sections[handlerLog[k].sec].elements[handlerLog[k].el].content
            IN  \E i \in CallIdx :
                   /\ calls[i].op = "addImageElement"
                   /\ calls[i].sec = handlerLog[k].sec /\ calls[i].el = handlerLog[k].el
                   /\ calls[i].content = image
                   /\ calls[i].geometry.w = Num(image.width)
                   /\ calls[i].geometry.h = Num(image.height)

(* C4: a backend call that throws is the last backend call and createSlides *)
(* rejects.                                                                *)
C4_BackendFailureAborts ==
    \A i \in CallIdx :
        ~calls[i].ok => (i = Len(calls) /\ result = "rejected")

(* C5 (as claimed): with a slideLayout outside the known variants the      *)
(* conversion fails before any backend call is made.                       *)
C5_UnknownLayoutRejectedUpFront ==
    config.slideLayout \notin SlideLayout =>
        /\ calls = <<>>
        /\ pc = "done" => result = "rejected"

(* C5 (amended): a slideLayout outside the known variants does not fail    *)
(* the conversion; the backend calls are made as usual and the elements    *)
(* are positioned with the default rectangles.                             *)
C5_UnknownLayoutUsesDefaults ==
    config.slideLayout \notin SlideLayout =>
        /\ pc # "createSlides" => calls # <<>>
        /\ result = "rejected" => faults > 0
        /\ \A i \in CallIdx :
              calls[i].el >= 1 =>
                 LET el == sections[calls[i].sec].elements[calls[i].el]
                     rect == defaultPositions[el.type]
                 IN  /\ calls[i].options.x = rect.x
                     /\ calls[i].options.y = rect.y
                     /\ calls[i].form = "original" =>
                           (calls[i].options.w = rect.w \/ el.type = "image")

C5_Witness ==
    /\ config.slideLayout \notin SlideLayout
    /\ result = "resolved"
    /\ faults = 0
    /\ \E i, j \in CallIdx :
          /\ calls[i].op = "addTextElement"
          /\ calls[j].op = "addImageElement"

(* C6: a failure of backend initialization or of presentation creation     *)
(* rejects createSlides before any slide is added, and whatever escapes    *)
(* createSlideFromSection or createSlides is a SlideCreationError.         *)
C6_FailuresAreSlideCreationErrors ==
    /\ result = "rejected" => error.slides = "SlideCreationError"
    /\ error.section # "none" => error.section = "SlideCreationError"
    /\ \A i \in CallIdx :
          (calls[i].op \in {"initialize", "createPresentation"} /\ ~calls[i].ok) =>
              /\ result = "rejected"
              /\ error.slides = "SlideCreationError"
              /\ \A j \in CallIdx : calls[j].op # "addSlide"

C6_Witness ==
    /\ result = "rejected"
    /\ Len(calls) = 2
    /\ calls[2].op = "createPresentation"
    /\ ~calls[2].ok
    /\ error.thrown = "PptxGenerationError"

(* C7: with includeImages false no image is processed or handed to the     *)
(* backend, with preserveLinks false no link is; the elements of the other *)
(* kinds are still rendered.                                               *)
C7_FlagsGateImagesAndLinks ==
    /\ ~config.includeImages =>
          /\ \A i \in CallIdx : calls[i].op # "addImageElement"
          /\ \A k \in LogIdx : handlerLog[k].handler # "processImage"
    /\ ~config.preserveLinks =>
          /\ \A i \in CallIdx : calls[i].op # "addLinkElement"
          /\ \A k \in LogIdx : handlerLog[k].handler # "processLink"
    /\ result = "resolved" =>
          \A p \in ElementPositions :
              sections[p[1]].elements[p[2]].type \in {"text", "table", "list"}
                 => Rendered(p[1], p[2])

C7_Witness ==
    /\ result = "resolved"
    /\ ~config.includeImages
    /\ ~config.preserveLinks
    /\ Len(sections) = 1
    /\ Len(sections[1].elements) = 2
    /\ sections[1].elements[1].type = "image"
    /\ sections[1].elements[2].type = "table"
    /\ Rendered(1, 2)
    /\ Len(calls) = 4

\* the element the default section holds at position k when the kinds come
\* in the order given by `kinds`
RECURSIVE ElementInKindOrder(_, _)
ElementInKindOrder(kinds, k) ==
    LET list == Head(kinds)[2]
    IN  IF k <= Len(list)
        THEN [type |-> Head(kinds)[1], content |-> list[k], style |-> NoStyle]
        ELSE ElementInKindOrder(Tail(kinds), k - Len(list))

(* C8 (as claimed): without sections there is one slide, titled            *)
(* "Untitled", whose elements are the texts, then the images, then the     *)
(* tables, then the lists of the document-wide resources.                  *)
C8_DefaultSectionFourKinds ==
    (Len(htmlContent.sections) = 0 /\ sections # <<>>) =>
        LET r == htmlContent.resources
            kinds == <<<<"text", r.texts>>, <<"image", r.images>>,
                       <<"table", r.tables>>, <<"list", r.lists>>>>
            n == Len(r.texts) + Len(r.images) + Len(r.tables) + Len(r.lists)
        IN  /\ Len(sections) = 1
            /\ sections[1].title = Untitled
            /\ Len(sections[1].elements) = n
            /\ \A k \in 1..n : sections[1].elements[k] = ElementInKindOrder(kinds, k)

(* C8 (amended): without sections there is one slide, titled "Untitled",   *)
(* whose elements are the texts, then the images, then the tables, then    *)
(* the lists, then the links of the document-wide resources, each kind in  *)
(* resource order.                                                         *)
C8_DefaultSectionFiveKinds ==
    (Len(htmlContent.sections) = 0 /\ sections # <<>>) =>
        LET r == htmlContent.resources
            kinds == <<<<"text", r.texts>>, <<"image", r.images>>,
                       <<"table", r.tables>>, <<"list", r.lists>>,
                       <<"link", r.links>>>>
            n == Len(r.texts) + Len(r.images) + Len(r.tables) + Len(r.lists)
                   + Len(r.links)
        IN  /\ Len(sections) = 1
            /\ sections[1].title = Untitled
            /\ Len(sections[1].elements) = n
            /\ \A k \in 1..n : sections[1].elements[k] = ElementInKindOrder(kinds, k)
            /\ result = "resolved" =>
                  /\ Cardinality({i \in CallIdx : calls[i].op = "addSlide"}) = 1
                  /\ \A i \in CallIdx :
                        calls[i].op = "addSlide" => calls[i].title = Untitled

C8_Witness ==
    /\ Len(htmlContent.sections) = 0
    /\ result = "resolved"
    /\ Len(htmlContent.resources.texts) = 2
    /\ Len(htmlContent.resources.links) = 1
    /\ Len(sections[1].elements) = 3
    /\ sections[1].elements[3].type = "link"
    /\ \E i \in CallIdx : calls[i].op = "addSlide" /\ calls[i].title = Untitled

(* C9: createSlides calls the theme handler's applyTheme with the          *)
(* presentation and config.theme before any slide is added.                *)
C9_ThemeHandlerAppliedBeforeSlides ==
    \A j \in CallIdx :
        calls[j].op = "addSlide" =>
            \E i \in 1..(j - 1) :
                /\ calls[i].op = "themeHandler.applyTheme"
                /\ calls[i].theme = config.theme

-----------------------------------------------------------------------------
\* indices of the body's own children with the given tag, in order
TopLevel(body, tag) ==
    SelectSeq([i \in 1..Len(body) |-> i], LAMBDA i : body[i].tag = tag)

NonNested(body, tag) ==
    \A i \in 1..Len(body) : \A j \in 1..Len(body[i].kids) : body[i].kids[j].tag # tag

(* C10: for a document with n non-nested <h1> and the split-by-H1 strategy *)
(* extractSections returns n sections, one per heading in document order,  *)
(* or one fallback section when n = 0.                                     *)
C10_SectionPerHeading ==
    (ppc = "done" /\ strategy.kind = "h1" /\ NonNested(doc.body, "h1")) =>
        LET headings == TopLevel(doc.body, "h1")
            n == Len(headings)
        IN  IF n = 0
            THEN Len(parsed) = 1
            ELSE /\ Len(parsed) = n
                 /\ \A k \in 1..n : parsed[k].content[1] = doc.body[headings[k]]
                 /\ \A k \in 1..n : \A m \in 2..Len(parsed[k].content) :
                        parsed[k].content[m].tag # "h1"

C10_Witness ==
    /\ ppc = "done"
    /\ strategy.kind = "h1"
    /\ NonNested(doc.body, "h1")
    /\ Len(TopLevel(doc.body, "h1")) = 2
    /\ Len(doc.body) = 3
    /\ doc.body[1].tag = "h1"
    /\ doc.body[2].tag = "p"
    /\ Len(parsed) = 2

-----------------------------------------------------------------------------
\* the node at path s, with all it contains, precedes the node at path q
WhollyBefore(s, q) ==
    \/ s[1] < q[1]
    \/ s[1] = q[1] /\ Len(s) = 2 /\ Len(q) = 2 /\ s[2] < q[2]

(* C11: for the heading and custom-selector strategies, wherever the        *)
(* matching nodes are nested, a section's content is its heading followed  *)
(* by the heading's following siblings that lie before the next matching   *)
(* heading; no node at or after the next matching heading is part of it.   *)
C11_ContentStopsAtNextHeading ==
    (ppc = "done" /\ strategy.kind # "none" /\ ~InnerHTMLBlank(doc.body)
       /\ querySelectorAll(doc.body, Selector(strategy)) # <<>>) =>
        LET headers == querySelectorAll(doc.body, Selector(strategy))
            siblings(k) ==
                LET list == SiblingList(doc.body, headers[k])
                IN  SelectSeq([i \in 1..Len(list) |-> i],
                        LAMBDA i :
                            /\ i > Position(headers[k])
                            /\ k < Len(headers) =>
                                  WhollyBefore(SiblingPath(headers[k], i), headers[k + 1]))
        IN  /\ Len(parsed) = Len(headers)
            /\ \A k \in 1..Len(headers) :
                  parsed[k].content =
                      <<NodeAt(doc.body, headers[k])>>
                        \o [m \in 1..Len(siblings(k)) |->
                              SiblingList(doc.body, headers[k])[siblings(k)[m]]]

(* C15: every link handed to the backend's addLinkElement carries a         *)
(* non-empty href which is the normalized form of the extracted href, a    *)
(* fixed point of normalizeUrl, and never the extracted value itself.      *)
C15_BackendLinksNormalized ==
    \A i \in CallIdx :
        calls[i].op = "addLinkElement" =>
            LET extracted == sections[calls[i].sec].elements[calls[i].el].content.href
                href == calls[i].content.href
            IN  /\ href # <<>>
                /\ href = normalizeUrl(extracted)
                /\ normalizeUrl(href) = href

-----------------------------------------------------------------------------
(* C13: normalizeUrl is idempotent: normalizing what normalizeUrl returned  *)
(* gives the same string again, for every input string.                    *)
C13_NormalizeUrlIdempotent ==
    (fpc = "done" /\ input.fn = "normalizeUrl") => output[2] = output[1]

C13_Witness ==
    /\ fpc = "done"
    /\ input = [fn |-> "normalizeUrl", arg |-> HttpPrefix \o <<"x">>]
    /\ output[1] = HttpsPrefix \o <<"x">>
    /\ output[2] = output[1]

\* /^[a-z]+:/i decides whether a string has a scheme
HasScheme(url) == MatchesScheme(url)

(* C14: normalizeUrl returns "#" for the empty string; returns its input   *)
(* when that starts with "#", has a scheme other than http(s), or has no   *)
(* scheme and starts with "/"; returns "https://" + input for every other  *)
(* input without scheme; replaces a leading "http://" by "https://"; and   *)
(* returns every other input unchanged.                                    *)
C14_NormalizeUrlCases ==
    (fpc # "call" /\ input.fn = "normalizeUrl") =>
      LET url == input.arg IN
        output[1] =
            IF url = <<>> THEN <<"#">>
            ELSE IF StartsWith(url, <<"#">>) THEN url
            ELSE IF HasScheme(url) /\ ~MatchesHttp(url) THEN url
            ELSE IF ~HasScheme(url) /\ StartsWith(url, <<"/">>) THEN url
            ELSE IF ~HasScheme(url) THEN HttpsPrefix \o url
            ELSE IF StartsWith(url, HttpPrefix)
            THEN HttpsPrefix \o SubSeq(url, Len(HttpPrefix) + 1, Len(url))
            ELSE url

-----------------------------------------------------------------------------
\* the elements of a forest, each where its source node stands
InDocumentOrder(forest) ==
    LET found == SelectSeq(Descendants(forest),
                           LAMBDA n : IsImage(n) \/ IsTable(n) \/ IsList(n) \/ IsText(n))
        element(n) == CASE IsImage(n) -> SlideElement("image", ImageResource(n))
                        [] IsTable(n) -> SlideElement("table", TableResource(n))
                        [] IsList(n) -> SlideElement("list", ListResource(n))
                        [] IsText(n) -> SlideElement("text", TextResource(n))
    IN  [k \in 1..Len(found) |-> element(found[k])]

(* C12: in the result of parseHTML the elements of every section are in    *)
(* document order, whatever their kinds: an element whose source node      *)
(* comes earlier in the section's markup comes earlier in the list.        *)
C12_ElementsInDocumentOrder ==
    (fpc = "returned" /\ input.fn = "parseHTML" /\ ~input.arg.malformed) =>
        \A k \in 1..Len(output[1].sections) :
            output[1].sections[k].elements
                = InDocumentOrder(output[1].sections[k].content)

(* C16: resources.links of the result of parseHTML holds one link (text,   *)
(* href) per anchor with a non-empty href and a non-blank text, in         *)
(* document order, and none for the other anchors.                         *)
C16_LinksExtracted ==
    (fpc = "returned" /\ input.fn = "parseHTML" /\ ~input.arg.malformed) =>
        LET anchors == SelectSeq(Descendants(input.arg.body),
                                 LAMBDA n : /\ n.tag = "a"
                                            /\ OrElse(n.href, <<>>) # <<>>
                                            /\ ~IsWhitespace(n.text))
        IN  output[1].resources.links
                = [k \in 1..Len(anchors) |->
                      [text |-> anchors[k].text, href |-> anchors[k].href]]

-----------------------------------------------------------------------------
(* Direct calls of the handlers                                             *)

Returned(fn) == fpc = "returned" /\ input.fn = fn

\* padded keeps the cells of original in place and adds '' cells on the right
\* up to n cells
PaddedTo(padded, original, n) ==
    /\ Len(padded) = n
    /\ Len(original) <= n
    /\ \A c \in 1..n : padded[c] = IF c <= Len(original) THEN original[c] ELSE <<>>

\* C17: processTable returns a table whose header row and rows all have the
\* length max(original header length, longest original row); the original
\* cells stay in place and the added cells are '' on the right.
C17_TableRowsPadded ==
    Returned("processTable") =>
        LET table == input.arg
            processed == output[1]
            lengths == {Len(table.headers)} \cup
                       {Len(table.rows[r]) : r \in 1..Len(table.rows)}
            maxColumns == CHOOSE n \in lengths : \A m \in lengths : m <= n
        IN  /\ PaddedTo(processed.headers, table.headers, maxColumns)
            /\ Len(processed.rows) = Len(table.rows)
            /\ \A r \in 1..Len(table.rows) :
                  PaddedTo(processed.rows[r], table.rows[r], maxColumns)

\* a one-column header over a two-cell row and an empty row: the header and
\* the empty row are padded to two cells
C17_Witness ==
    /\ Returned("processTable")
    /\ input.arg.headers = <<<<"0", "1">>>>
    /\ input.arg.rows = << <<<<"1", "1">>, <<"1", "2">>>>, <<>> >>
    /\ output[1].headers = <<<<"0", "1">>, <<>>>>
    /\ output[1].rows[2] = <<<<>>, <<>>>>

\* C18: determineBulletType gives the disc bullet for an unordered list, the
\* number type of the table for an ordered one (decimal for an unknown or
\* absent type), and a numeric startAt exactly when the list is ordered and
\* start is present and not "1".
C18_BulletMapping ==
    Returned("determineBulletType") =>
        LET list == input.arg
            bullet == output[1]
            type == list.style.type
            start == list.style.start
        IN  /\ ~list.ordered =>
                  bullet = Bullet("bullet", "disc glyph", "undefined", Undefined)
            /\ list.ordered =>
                  /\ bullet.type = "number"
                  /\ bullet.numberType =
                        IF type = <<"A">> THEN "upperLetter"
                        ELSE IF type = <<"a">> THEN "lowerLetter"
                        ELSE IF type = <<"I">> THEN "upperRoman"
                        ELSE IF type = <<"i">> THEN "lowerRoman"
                        ELSE "decimal"
            /\ IF list.ordered /\ start \notin {Absent, <<>>, <<"1">>}
               THEN bullet.startAt.unit = "num"
               ELSE bullet.startAt = Undefined

\* C19: the contents of the runs of generateComplexTextElements, joined, are
\* the fragment's text content once whitespace is collapsed (each run of
\* blanks read as one blank, the blanks at both ends dropped).
C19_RunsCoverText ==
    Returned("generateComplexTextElements") =>
        LET runs == output[1]
            joined == Concat([j \in 1..Len(runs) |-> runs[j].content])
            plain == TextContent(Node("div", <<>>, input.arg))
            kept(text) == {i \in 1..Len(text) :
                              \/ text[i] # " "
                              \/ /\ i > 1
                                 /\ text[i - 1] # " "
                                 /\ \E k \in (i + 1)..Len(text) : text[k] # " "}
            collapsed(text) ==
                LET at(n) == CHOOSE i \in kept(text) :
                                 Cardinality({k \in kept(text) : k <= i}) = n
                IN  [n \in 1..Cardinality(kept(text)) |-> text[at(n)]]
        IN  collapsed(joined) = collapsed(plain)

\* C20: every image extractImages returns has a positive width and a
\* positive height.
C20_ImageDimensionsPositive ==
    Returned("extractImages") =>
        \A j \in 1..Len(output[1]) :
            output[1][j].width > 0 /\ output[1][j].height > 0


-----------------------------------------------------------------------------
\* the add calls made for element e of section s, as indices into calls
AddCalls(s, e) == {i \in CallIdx : calls[i].sec = s /\ calls[i].el = e}

(* C28: an element gets at most one add call that the backend completes: a *)
(* further add call for the same element follows only add calls that       *)
(* threw, never one that succeeded, and at most one retry is made.         *)
C28_AtMostOneCompletedAdd ==
    \A p \in ElementPositions :
        /\ Cardinality(AddCalls(p[1], p[2])) <= 2
        /\ \A i, j \in AddCalls(p[1], p[2]) : i < j => ~calls[i].ok

\* a table whose processed add threw and whose original add succeeded next
\* to an element added at the first attempt
C28_Witness ==
    /\ result = "resolved"
    /\ Len(sections) = 1
    /\ Len(sections[1].elements) = 2
    /\ sections[1].elements[1].type = "table"
    /\ \E i \in AddCalls(1, 1) :
          /\ ~calls[i].ok /\ calls[i].form = "processed"
          /\ i + 1 \in AddCalls(1, 1) /\ calls[i + 1].ok /\ calls[i + 1].form = "original"
    /\ Cardinality(AddCalls(1, 2)) = 1
    /\ Rendered(1, 2)


-----------------------------------------------------------------------------
(* C24: in the options of every add call made for an element, each key    *)
(* present in element.style has the value element.style gives it.         *)
C24_StyleOverridesLayout ==
    \A p \in ElementPositions :
        \A i \in AddCalls(p[1], p[2]) :
            \A k \in {"x", "y", "w", "h"} :
                Present(ElementAt(p[1], p[2]).style[k]) =>
                    calls[i].options[k] = ElementAt(p[1], p[2]).style[k]

(* C29: createSlides settles: it resolves or rejects.                      *)
C29_CreateSlidesSettles == <>(result # "pending")

\* createSlides resolved after it awaited an image whose load failed
C29_Witness ==
    /\ result = "resolved"
    /\ \E k \in LogIdx :
          handlerLog[k].handler = "processImage" /\ handlerLog[k].event = "rejected"


-----------------------------------------------------------------------------
(* C25: for positive original dimensions calculateOptimalDimensions keeps  *)
(* within each limit that is given, never returns a dimension larger than  *)
(* the original one, and returns the original dimensions when no limit is  *)
(* given or the original fits the limits given.                            *)
C25_DimensionsWithinLimits ==
    Returned("calculateOptimalDimensions") =>
        LET a == input.arg
            d == output[1]
            fits == /\ a.maxWidth # 0 => a.width <= a.maxWidth
                    /\ a.maxHeight # 0 => a.height <= a.maxHeight
        IN  /\ a.maxWidth # 0 => d.width <= a.maxWidth
            /\ a.maxHeight # 0 => d.height <= a.maxHeight
            /\ d.width <= a.width
            /\ d.height <= a.height
            /\ fits => d = [width |-> a.width, height |-> a.height]

\* a 4 by 3 image limited to 3 by 1 with its aspect ratio kept: the width
\* limit gives 3 by 2, the height limit then 1 by 1
C25_Witness ==
    /\ Returned("calculateOptimalDimensions")
    /\ input.arg = [width |-> 4, height |-> 3, maxWidth |-> 3, maxHeight |-> 1,
                    preserveAspectRatio |-> TRUE]
    /\ output[1] = [width |-> 1, height |-> 1]


-----------------------------------------------------------------------------
(* C26: the bullet descriptor that PptxGenerator.addListElement derives    *)
(* when its caller supplies none is the one ListHandler.determineBulletType *)
(* returns for the same list, whatever its ordered flag, type and start.   *)
C26_BackendBulletAgrees ==
    Returned("addListElement") => output[1] = determineBulletType(input.arg)


-----------------------------------------------------------------------------
(* C27: in every table extractTables returns, cellDetails[r][c] describes  *)
(* the source cell that rows[r][c] was read from, also when source rows    *)
(* without data cells were skipped (every cell of the source reads as its  *)
(* own row and column, so the same content means the same cell).           *)
C27_CellDetailsAligned ==
    Returned("extractTables") =>
        \A t \in 1..Len(output[1]) :
            LET table == output[1][t]
            IN  \A r \in 1..Len(table.rows) : \A c \in 1..Len(table.rows[r]) :
                    table.style.cellDetails[r][c] = CellDetail(table.rows[r][c])


-----------------------------------------------------------------------------
\* the runs of node when each run is formatted by its whole chain of
\* formatting ancestors; chain holds what the ancestors of node set
RECURSIVE RunsOfChain(_, _)
RunsOfChain(node, chain) ==
    LET own == [bold |-> chain.bold \/ getNodeFormatting(node).bold,
                italic |-> chain.italic \/ getNodeFormatting(node).italic,
                underline |-> chain.underline \/ getNodeFormatting(node).underline]
    IN  IF IsWhitespace(TextContent(node)) THEN <<>>
        ELSE IF node.tag = "#text" THEN <<[content |-> node.text, format |-> chain]>>
        ELSE IF Len(node.kids) = 1 /\ node.kids[1].tag = "#text"
        THEN <<[content |-> TextContent(node), format |-> own]>>
        ELSE Concat([j \in 1..Len(node.kids) |-> RunsOfChain(node.kids[j], own)])

\* C23: each run of generateComplexTextElements is bold, italic or
\* underlined exactly when some element of its chain of ancestors sets that
\* formatting.
C23_RunsCarryAncestorFormatting ==
    Returned("generateComplexTextElements") =>
        LET runs == output[1]
            expected == RunsOfChain(Node("div", <<>>, input.arg),
                                    [bold |-> FALSE, italic |-> FALSE, underline |-> FALSE])
        IN  /\ Len(runs) = Len(expected)
            /\ \A j \in 1..Len(runs) :
                  /\ runs[j].content = expected[j].content
                  /\ runs[j].format.bold = expected[j].format.bold
                  /\ runs[j].format.italic = expected[j].format.italic
                  /\ runs[j].format.underline = expected[j].format.underline


-----------------------------------------------------------------------------
(* C22: for an item whose markup holds a nested <ul>, the text handed to   *)
(* the backend is the trimmed main text followed by one line for each      *)
(* nested <li>, each line led by the indentation and the bullet glyph.     *)
C22_NestedItemsIndented ==
    (fpc = "done" /\ input.fn = "processList" /\ input.arg.li.nested # <<>>) =>
        output[3] = <<Trim(input.arg.li.text) \o
                      Concat([k \in 1..Len(input.arg.li.nested) |->
                                 <<"\n">> \o NestedItemPrefix \o input.arg.li.nested[k]])>>

(* C30: formatListItems is idempotent: the items that processList has      *)
(* formatted are left as they are when addElementToSlide formats them      *)
(* again before the backend call.                                          *)
C30_FormatListItemsIdempotent ==
    (fpc = "done" /\ input.fn = "processList") => output[2] = output[1].items


-----------------------------------------------------------------------------
====
